---- MODULE Spec2Model ----
(***************************************************************************)
(* Model of climada.engine.supplychain.SupplyChain: the direct impact      *)
(* mapper (calc_sector_direct_impact), the input-output propagation        *)
(* (calc_indirect_impact with _leontief_calc, _ghosh_calc, _eeioa_calc)    *)
(* and the aggregation (calc_total_impact).                                *)
(*                                                                         *)
(* Numbers.  A float is modelled as an exact rational <<n, d>> in lowest   *)
(* terms with d > 0, and the float not-a-number as <<0, 0>>.  Rounding to  *)
(* float32 (astype(np.float32)) is not modelled.  Python arrays are        *)
(* 0-based; the sequences here are 1-based, so array index k is sequence   *)
(* index k + 1.  Offsets within a country block (selected_subsec,          *)
(* cntry_pos) keep their 0-based Python values.                            *)
(***************************************************************************)
EXTENDS Integers, Sequences, FiniteSets, TLC

\* ------------------------------------------------------------------ bounds
\* Most rows of the exposure data frame.
MaxExpRows == 2
\* Longest user-defined selected_subsec list.
MaxSubsec == 2

\* ------------------------------------------------------- float arithmetic
NaN == <<0, 0>>
Zero == <<0, 1>>
One == <<1, 1>>

Abs(x) == IF x < 0 THEN -x ELSE x

RECURSIVE GCD(_, _)
GCD(a, b) == IF b = 0 THEN a ELSE GCD(b, a % b)

\* The rational n/d in lowest terms; 0/0 is not-a-number.
Rat(n, d) ==
    IF d = 0 THEN NaN
    ELSE LET g == GCD(Abs(n), Abs(d))
             s == IF d < 0 THEN -1 ELSE 1
         IN  <<(s * n) \div g, (s * d) \div g>>

IsNaN(a) == a[2] = 0
FAdd(a, b) == IF IsNaN(a) \/ IsNaN(b) THEN NaN ELSE Rat(a[1] * b[2] + b[1] * a[2], a[2] * b[2])
FSub(a, b) == IF IsNaN(a) \/ IsNaN(b) THEN NaN ELSE Rat(a[1] * b[2] - b[1] * a[2], a[2] * b[2])
FMul(a, b) == IF IsNaN(a) \/ IsNaN(b) THEN NaN ELSE Rat(a[1] * b[1], a[2] * b[2])
\* Float division.  The only zero divisor the model meets is 0/0 (a country
\* whose exposure values, all non-negative, sum to zero), which is NaN.
FDiv(a, b) == IF IsNaN(a) \/ IsNaN(b) THEN NaN ELSE Rat(a[1] * b[2], a[2] * b[1])
\* x > 0 on floats: False for NaN.
FPos(a) == ~IsNaN(a) /\ a[1] > 0
FNeg(a) == ~IsNaN(a) /\ a[1] < 0
\* np.maximum(a, b): propagates NaN.
FMaximum(a, b) ==
    IF IsNaN(a) \/ IsNaN(b) THEN NaN
    ELSE IF a[1] * b[2] >= b[1] * a[2] THEN a ELSE b

RECURSIVE SumSeq(_)
\* ndarray.sum over a vector.
SumSeq(s) == IF s = <<>> THEN Zero ELSE FAdd(s[1], SumSeq(Tail(s)))

RECURSIVE NanSumSeq(_)
\* np.nansum over a vector: NaN counts as zero.
NanSumSeq(s) ==
    IF s = <<>> THEN Zero
    ELSE FAdd(IF IsNaN(s[1]) THEN Zero ELSE s[1], NanSumSeq(Tail(s)))

\* ------------------------------------------------------------ array helpers
Int2F(n) == <<n, 1>>
IntVec(v) == [i \in 1..Len(v) |-> Int2F(v[i])]
IntMat(m) == [i \in 1..Len(m) |-> IntVec(m[i])]
\* np.zeros(shape=(r, c))
Zeros(r, c) == [i \in 1..r |-> [j \in 1..c |-> Zero]]
Column(m, j) == [i \in 1..Len(m) |-> m[i][j]]
\* ndarray.mean(axis=0) of a (years x rows) matrix with at least one year.
MeanAxis0(m) ==
    [j \in 1..Len(m[1]) |-> FDiv(SumSeq(Column(m, j)), Int2F(Len(m)))]
\* np.identity(n)
Identity(n) == [i \in 1..n |-> [j \in 1..n |-> IF i = j THEN One ELSE Zero]]
MatSub(a, b) == [i \in 1..Len(a) |-> [j \in 1..Len(a[i]) |-> FSub(a[i][j], b[i][j])]]
SeqRange(s) == {s[i] : i \in 1..Len(s)}
\* Evaluates a vector (a matrix) to an explicit sequence (of sequences).
Vec(v) == v \o <<>>
Mat(m) == [i \in 1..Len(m) |-> Vec(m[i])] \o <<>>

\* ---------------------------------------------------------- np.linalg.inv
RECURSIVE GaussJordan(_, _, _)
\* Gauss-Jordan elimination of the n x 2n matrix aug = [M | I] from column k
\* on.  In exact arithmetic the result does not depend on the pivot order;
\* the first row with a non-zero entry in column k is used.
GaussJordan(aug, k, n) ==
    IF k > n THEN [ok |-> TRUE, m |-> aug]
    ELSE LET cands == {p \in k..n : aug[p][k][1] # 0}
         IN  IF cands = {} THEN [ok |-> FALSE, m |-> aug]
             ELSE LET p == CHOOSE q \in cands : \A r \in cands : q <= r
                      sw == Mat([i \in 1..n |->
                                  IF i = k THEN aug[p]
                                  ELSE IF i = p THEN aug[k] ELSE aug[i]])
                      prow == Vec([j \in 1..(2 * n) |-> FDiv(sw[k][j], sw[k][k])])
                      el == Mat([i \in 1..n |->
                                  IF i = k THEN prow
                                  ELSE [j \in 1..(2 * n) |->
                                          FSub(sw[i][j], FMul(sw[i][k], prow[j]))]])
                  IN  GaussJordan(el, k + 1, n)

\* np.linalg.inv(m): ok is FALSE where numpy raises LinAlgError (singular
\* matrix); otherwise inv is the inverse.
LinalgInv(m) ==
    LET n == Len(m)
        aug == Mat([i \in 1..n |-> [j \in 1..(2 * n) |->
                     IF j <= n THEN m[i][j]
                     ELSE IF j - n = i THEN One ELSE Zero]])
        r == GaussJordan(aug, 1, n)
    IN  IF r.ok
        THEN [ok |-> TRUE, inv |-> Mat([i \in 1..n |-> [j \in 1..n |-> r.m[i][n + j]]])]
        ELSE [ok |-> FALSE, inv |-> <<>>]
\* ------------------------------------------------------------- MRIOT store
\* The tables read_wiod may load: mriot_data (flow matrix), total_prod,
\* countries_iso3 and the number of sectors (len(self.sectors)).  Rows are
\* country-major, sector-minor.  Every table has the aggregate country ROW,
\* as the WIOD "_ROW" release read by read_wiod does.
TableRegular ==
    [mriot_data |-> IntMat(<< <<10, 5, 0, 5>>, <<5, 4, 5, 0>>,
                              <<0, 5, 10, 5>>, <<5, 0, 5, 4>> >>),
     total_prod |-> IntVec(<<40, 20, 40, 20>>),
     countries_iso3 |-> <<"CHE", "ROW">>,
     nsec |-> 2]
\* Row 1 (0-based) has no production although it sells; row 2 produces less
\* than it buys (negative value added).
TableDegenerate ==
    [mriot_data |-> IntMat(<< <<4, 2, 5, 2>>, <<1, 0, 5, 0>>,
                              <<2, 0, 1, 2>>, <<2, 2, 4, 4>> >>),
     total_prod |-> IntVec(<<20, 0, 10, 20>>),
     countries_iso3 |-> <<"CHE", "ROW">>,
     nsec |-> 2]
\* (I - coefficients) is singular under every approach.
TableSingular ==
    [mriot_data |-> IntMat(<< <<5, 5>>, <<5, 5>> >>),
     total_prod |-> IntVec(<<10, 10>>),
     countries_iso3 |-> <<"CHE", "ROW">>,
     nsec |-> 1]
\* Two countries of one sector each.
TableSmall ==
    [mriot_data |-> IntMat(<< <<2, 1>>, <<3, 1>> >>),
     total_prod |-> IntVec(<<10, 5>>),
     countries_iso3 |-> <<"CHE", "ROW">>,
     nsec |-> 1]
Tables == {TableRegular, TableDegenerate, TableSingular, TableSmall}

\* len(self.countries_iso3) * len(self.sectors)
NRows(t) == Len(t.countries_iso3) * t.nsec
\* self.cntry_pos: the keys, and the first (0-based) row of a country's range.
CntryPosKeys(t) == SeqRange(t.countries_iso3)
CntryPosStart(t, iso3) ==
    LET i == CHOOSE k \in 1..Len(t.countries_iso3) : t.countries_iso3[k] = iso3
    IN  t.nsec * (i - 1)

\* ---------------------------------------------------- country-code lookup
Digits == <<"0", "1", "2", "3", "4", "5", "6", "7", "8", "9">>
RECURSIVE Str(_)
\* Python's str() of a non-negative integer: its decimal digits, no padding.
Str(n) == IF n < 10 THEN <<Digits[n + 1]>> ELSE Str(n \div 10) \o <<Digits[(n % 10) + 1]>>
\* iso3166.countries_by_numeric.get(key): keyed by the zero-padded three-digit
\* numeric code; "None" where the dictionary has no such key.
CountriesByNumericGet(key) ==
    CASE key = <<"0", "0", "4">> -> "AFG"
      [] key = <<"7", "1", "6">> -> "ZWE"
      [] key = <<"7", "5", "6">> -> "CHE"
      [] key = <<"8", "9", "4">> -> "ZMB"
      [] OTHER -> "None"
\* The region_id values of the exposures: Switzerland, Zambia, Zimbabwe and
\* a number that is no ISO 3166 numeric code.
RegionIds == {756, 894, 716, 999}

\* ------------------------------------------------------ the SupplyChain
VARIABLES
    mriot,              \* mriot_data, total_prod, countries_iso3, sectors, cntry_pos
    has,                \* the result attributes that exist on the object
    years, direct_impact, direct_aai_agg, cntry_dir_imp,
    indirect_impact, indirect_aai_agg, io_data,
    total_impact, total_aai_agg,
    err,                \* the exception the last call raised, "none" if it returned
    last                \* the last call: its name, arguments and collaborator calls

vars == <<mriot, has, years, direct_impact, direct_aai_agg, cntry_dir_imp,
          indirect_impact, indirect_aai_agg, io_data, total_impact,
          total_aai_agg, err, last>>
results == <<has, years, direct_impact, direct_aai_agg, cntry_dir_imp,
             indirect_impact, indirect_aai_agg, io_data, total_impact,
             total_aai_agg>>

NoIoData == [coefficients |-> <<>>, inverse |-> <<>>, risk_structure |-> <<>>,
             io_approach |-> "None"]
NoArgs == [sector_type |-> "None", omitted |-> FALSE, selected_subsec |-> <<>>,
           io_approach |-> "None", imp_calls |-> <<>>]

\* __init__ followed by read_wiod: the table is loaded, no result exists.
InitWith(tables) ==
    /\ mriot \in tables
    /\ has = {}
    /\ years = <<>> /\ direct_impact = <<>> /\ direct_aai_agg = <<>>
    /\ cntry_dir_imp = <<>>
    /\ indirect_impact = <<>> /\ indirect_aai_agg = <<>> /\ io_data = NoIoData
    /\ total_impact = <<>> /\ total_aai_agg = <<>>
    /\ err = "none"
    /\ last = [op |-> "init"] @@ NoArgs
\* ------------------------------------------- calc_sector_direct_impact
PyRange(a, b) == [i \in 1..(b - a) |-> a + i - 1]

\* Mutant of BuiltInSubsecPos: an unknown name falls back to the default
\* sector type instead of raising.
BuiltInSubsecPosDefault(sector_type) ==
    CASE sector_type = "manufacturing" -> [ok |-> TRUE, val |-> PyRange(4, 23)]
      [] sector_type = "agriculture" -> [ok |-> TRUE, val |-> PyRange(0, 1)]
      [] sector_type = "mining" -> [ok |-> TRUE, val |-> PyRange(3, 4)]
      [] OTHER -> [ok |-> TRUE, val |-> PyRange(26, 56)]

\* built_in_subsec_pos[sector_type]: ok is FALSE where the lookup raises
\* KeyError.  range(a, b) is the offsets a .. b-1.
BuiltInSubsecPos(sector_type) ==
    CASE sector_type = "service" -> [ok |-> TRUE, val |-> PyRange(26, 56)]
      [] sector_type = "manufacturing" -> [ok |-> TRUE, val |-> PyRange(4, 23)]
      [] sector_type = "agriculture" -> [ok |-> TRUE, val |-> PyRange(0, 1)]
      [] sector_type = "mining" -> [ok |-> TRUE, val |-> PyRange(3, 4)]
      [] OTHER -> [ok |-> FALSE, val |-> <<>>]

\* "if not selected_subsec: selected_subsec = built_in_subsec_pos[sector_type]":
\* None and the empty list both count as omitted.
SelectSubsec(sector_type, omitted, selected_subsec) ==
    IF omitted \/ selected_subsec = <<>>
    THEN BuiltInSubsecPos(sector_type)
    ELSE [ok |-> TRUE, val |-> selected_subsec]

\* strptime(date, "%Y-%m-%d").year of an event date <<year, month, day>>.
EventYear(date) == date[1]
RECURSIVE SortedSeq(_)
SortedSeq(S) ==
    IF S = {} THEN <<>>
    ELSE LET m == CHOOSE x \in S : \A y \in S : x <= y
         IN  <<m>> \o SortedSeq(S \ {m})
\* np.unique: the distinct values in ascending order.
NpUnique(s) == SortedSeq(SeqRange(s))

RECURSIVE UniqueInOrder(_)
\* pandas Series.unique(): the distinct values in order of first appearance.
UniqueInOrder(s) ==
    IF s = <<>> THEN <<>>
    ELSE LET r == UniqueInOrder(SubSeq(s, 1, Len(s) - 1))
             x == s[Len(s)]
         IN  IF x \in SeqRange(r) THEN r ELSE Append(r, x)

\* The value column of the rows of one country ...
CntryValues(exposure, cntry) ==
    LET rows == SelectSeq(exposure, LAMBDA r : r.region_id = cntry)
    IN  [i \in 1..Len(rows) |-> Int2F(rows[i].value)]
\* Mutant of NormalizeExposure: a zero total leaves zeros instead of NaN.
NormalizeExposureGuarded(values) ==
    LET total_ctry_value == SumSeq(values)
    IN  [i \in 1..Len(values) |->
            IF total_ctry_value = Zero THEN Zero
            ELSE FDiv(values[i], total_ctry_value)]
\* ... after "cntyr_exp.gdf['value'] /= total_ctry_value": no zero check, so
\* a zero total turns every value into NaN and nothing is raised.
NormalizeExposure(values) ==
    LET total_ctry_value == SumSeq(values)
    IN  [i \in 1..Len(values) |-> FDiv(values[i], total_ctry_value)]

\* The impact functions the caller may pass.
ImpFuncSets == {"flat", "steep"}
\* Mean damage ratio of a country's exposure in one year.
DamageRatio(imp_fun_set, cntry, year) ==
    IF imp_fun_set = "flat" THEN Rat(1, 2)
    ELSE IF year = 2020
         THEN (CASE cntry = 756 -> One [] cntry = 894 -> Rat(1, 4)
                 [] cntry = 716 -> Rat(3, 4) [] OTHER -> Rat(1, 3))
         ELSE (CASE cntry = 756 -> Zero [] OTHER -> Rat(1, 2))
\* Impact.calc and Impact.calc_impact_year_set on the normalised exposure of
\* one country: one loss ratio per year of self.years.  "flat" sums every
\* exposure point (NaN propagates), "steep" only the points of positive value.
ImpactYearSet(imp_fun_set, yrs, cntry, norm) ==
    LET exposed == IF imp_fun_set = "flat" THEN SumSeq(norm)
                   ELSE SumSeq(SelectSeq(norm, FPos))
    IN  [y \in 1..Len(yrs) |-> FMul(exposed, DamageRatio(imp_fun_set, cntry, yrs[y]))]

\* Mutant of AccumulateAdd: "=" instead of "+=".
AccumulateOverwrite(direct, pos, contrib) ==
    [y \in 1..Len(direct) |-> [p \in 1..Len(direct[y]) |->
        LET ks == {k \in 1..Len(pos) : pos[k] + 1 = p}
        IN  IF ks = {} THEN direct[y][p]
            ELSE contrib[y][CHOOSE q \in ks : \A r \in ks : r <= q]]]

\* "self.direct_impact[:, subsec_cntry_pos] += direct_impact_cntry": numpy
\* reads, adds and writes back per listed position, so a position listed
\* twice receives one contribution (the last one written).  pos is 0-based.
AccumulateAdd(direct, pos, contrib) ==
    [y \in 1..Len(direct) |-> [p \in 1..Len(direct[y]) |->
        LET ks == {k \in 1..Len(pos) : pos[k] + 1 = p}
        IN  IF ks = {} THEN direct[y][p]
            ELSE LET k == CHOOSE q \in ks : \A r \in ks : r <= q
                 IN  FAdd(direct[y][p], contrib[y][k])]]

\* Lines 182-192 for one country: the value column of its rows, the
\* normalised values handed to Impact.calc and the impact year set returned.
ImpactCall(yrs, exposure, imp_fun_set, cntry) ==
    CHOOSE call \in
        {[cntry |-> cntry, values |-> values, norm |-> norm,
          imp_year_set |-> Vec(ImpactYearSet(imp_fun_set, yrs, cntry, norm))] :
            values \in {Vec(CntryValues(exposure, cntry))},
            norm \in {Vec(NormalizeExposure(Vec(CntryValues(exposure, cntry))))}} : TRUE

\* Lines 203-209: the 0-based rows of the selected subsectors of a country and
\* the country's direct impact on them, per year.
SubsecCntryPos(t, selected, cntry_iso3) ==
    [k \in 1..Len(selected) |-> selected[k] + CntryPosStart(t, cntry_iso3)]
DirectImpactCntry(t, subsec_cntry_pos, imp_year_set) ==
    LET subsec_cntry_prod == [k \in 1..Len(subsec_cntry_pos) |->
                                SumSeq(t.mriot_data[subsec_cntry_pos[k] + 1])]
    IN  [y \in 1..Len(imp_year_set) |-> [k \in 1..Len(subsec_cntry_pos) |->
            FMul(imp_year_set[y], subsec_cntry_prod[k])]]

\* One pass of the loop "for cntry in unique_regid_same_order" (lines
\* 181-213) from the accumulator acc = [direct, cdi, calls, err].
DirectStep(t, yrs, exposure, imp_fun_set, selected, cntry, acc) ==
    CHOOSE res \in
      { LET calls == Append(acc.calls, call)
            cntry_iso3 == IF found \in SeqRange(t.countries_iso3) THEN found ELSE "ROW"
            cdi == Append(acc.cdi, cntry_iso3)
        IN  IF found = "None"
            THEN \* None has no attribute alpha3
                 [acc EXCEPT !.calls = calls, !.err = "AttributeError"]
            ELSE IF cntry_iso3 \notin CntryPosKeys(t)
            THEN [acc EXCEPT !.calls = calls, !.cdi = cdi, !.err = "KeyError"]
            ELSE IF \E k \in 1..Len(selected) :
                       selected[k] + CntryPosStart(t, cntry_iso3) >= NRows(t)
            THEN [acc EXCEPT !.calls = calls, !.cdi = cdi, !.err = "IndexError"]
            ELSE [acc EXCEPT !.calls = calls, !.cdi = cdi,
                             !.direct = Mat(AccumulateAdd(acc.direct,
                                 Vec(SubsecCntryPos(t, selected, cntry_iso3)),
                                 Mat(DirectImpactCntry(t,
                                     Vec(SubsecCntryPos(t, selected, cntry_iso3)),
                                     call.imp_year_set))))]
        : call \in {ImpactCall(yrs, exposure, imp_fun_set, cntry)},
          found \in {CountriesByNumericGet(Str(cntry))} } : TRUE

RECURSIVE DirectLoop(_, _, _, _, _, _, _)
DirectLoop(t, yrs, exposure, imp_fun_set, selected, cntries, acc) ==
    IF cntries = <<>> \/ acc.err # "none" THEN acc
    ELSE DirectLoop(t, yrs, exposure, imp_fun_set, selected, Tail(cntries),
                    DirectStep(t, yrs, exposure, imp_fun_set, selected,
                               Head(cntries), acc))

\* calc_sector_direct_impact(hazard, exposure, imp_fun_set, sector_type,
\* selected_subsec); omitted stands for selected_subsec=None.
CalcSectorDirectImpact(hazard, exposure, imp_fun_set, sector_type, omitted, selected_subsec) ==
    LET sel == SelectSubsec(sector_type, omitted, selected_subsec)
        yrs == NpUnique([i \in 1..Len(hazard) |-> EventYear(hazard[i])])
        unique_regid_same_order ==
            UniqueInOrder([i \in 1..Len(exposure) |-> exposure[i].region_id])
        acc0 == [direct |-> Zeros(Len(yrs), NRows(mriot)), cdi |-> <<>>,
                 calls |-> <<>>, err |-> "none"]
        loop == DirectLoop(mriot, yrs, exposure, imp_fun_set, sel.val,
                           unique_regid_same_order, acc0)
        args == [op |-> "direct", sector_type |-> sector_type, omitted |-> omitted,
                 selected_subsec |-> selected_subsec, io_approach |-> "None"]
    IN  IF ~sel.ok
        THEN \* KeyError at line 167, before anything is assigned
             /\ err' = "KeyError"
             /\ last' = args @@ [imp_calls |-> <<>>]
             /\ UNCHANGED <<mriot, results>>
        ELSE \E out \in {loop} :
             /\ years' = yrs
             /\ direct_impact' = out.direct
             /\ cntry_dir_imp' = out.cdi
             /\ direct_aai_agg' = IF out.err = "none" THEN Vec(MeanAxis0(out.direct))
                                  ELSE direct_aai_agg
             /\ has' = has \cup {"years", "direct_impact", "cntry_dir_imp"}
                           \cup (IF out.err = "none" THEN {"direct_aai_agg"} ELSE {})
             /\ err' = out.err
             /\ last' = args @@ [imp_calls |-> out.calls]
             /\ UNCHANGED <<mriot, indirect_impact, indirect_aai_agg, io_data,
                            total_impact, total_aai_agg>>
\* ------------------------------------------------ calc_indirect_impact
\* Mutant of Coefficients: rows are normalised whatever the approach.
CoefficientsRowwise(t, io_approach) ==
    [i \in 1..Len(t.mriot_data) |-> [j \in 1..Len(t.mriot_data) |->
        IF FPos(t.total_prod[i])
        THEN FDiv(t.mriot_data[i][j], t.total_prod[i]) ELSE Zero]]

\* Lines 238-251: technical coefficients (columns divided by the column's
\* total production) for 'leontief' and 'eeioa', allocation coefficients
\* (rows divided by the row's total production) for anything else.
Coefficients(t, io_approach) ==
    LET n == Len(t.mriot_data)
    IN  IF io_approach \in {"leontief", "eeioa"}
        THEN [i \in 1..n |-> [j \in 1..n |->
                 IF FPos(t.total_prod[j])
                 THEN FDiv(t.mriot_data[i][j], t.total_prod[j]) ELSE Zero]]
        ELSE [i \in 1..n |-> [j \in 1..n |->
                 IF FPos(t.total_prod[i])
                 THEN FDiv(t.mriot_data[i][j], t.total_prod[i]) ELSE Zero]]

\* Lines 265-271: impact / production where production > 0, else 0.
DirectIntensity(t, direct_impact_yearly) ==
    [i \in 1..Len(direct_impact_yearly) |->
        IF FPos(t.total_prod[i]) THEN FDiv(direct_impact_yearly[i], t.total_prod[i])
        ELSE Zero]

\* Mutant of LeontiefCalc: iterates the columns of the inverse, as the other
\* two approaches do.
LeontiefCalcTransposed(t, direct_intensity, inverse) ==
    [i \in 1..Len(t.mriot_data) |-> [idx \in 1..Len(t.mriot_data) |->
        FMul(inverse[i][idx],
             FMul(direct_intensity[i],
                  FSub(t.total_prod[i], NanSumSeq(t.mriot_data[i]))))]]

\* _leontief_calc: the slice risk_structure[:, :, year_i], as slice[i][idx].
LeontiefCalc(t, direct_intensity, inverse) ==
    LET n == Len(t.mriot_data)
        demand == [i \in 1..n |-> FSub(t.total_prod[i], NanSumSeq(t.mriot_data[i]))]
        degr_demand == Vec([i \in 1..n |-> FMul(direct_intensity[i], demand[i])])
    IN  [i \in 1..n |-> [idx \in 1..n |-> FMul(inverse[idx][i], degr_demand[i])]]

\* Mutant of GhoshCalc: the degraded value added is not clamped at zero.
GhoshCalcUnclamped(t, direct_intensity, inverse) ==
    [i \in 1..Len(t.mriot_data) |-> [idx \in 1..Len(t.mriot_data) |->
        FMul(FMul(direct_intensity[i],
                  FSub(t.total_prod[i], NanSumSeq(Column(t.mriot_data, i)))),
             inverse[i][idx])]]

\* _ghosh_calc
GhoshCalc(t, direct_intensity, inverse) ==
    LET n == Len(t.mriot_data)
        value_added == [i \in 1..n |->
                          FSub(t.total_prod[i], NanSumSeq(Column(t.mriot_data, i)))]
        degr_value_added == Vec([i \in 1..n |->
                          FMaximum(FMul(direct_intensity[i], value_added[i]), Zero)])
    IN  [i \in 1..n |-> [idx \in 1..n |-> FMul(degr_value_added[i], inverse[i][idx])]]

\* _eeioa_calc
EeioaCalc(t, direct_intensity, inverse) ==
    LET n == Len(t.mriot_data)
    IN  [i \in 1..n |-> [idx \in 1..n |->
            FMul(FMul(direct_intensity[i], inverse[i][idx]), t.total_prod[idx])]]

\* The keys of io_switch, and the call io_switch[io_approach](...).
IoSwitchKeys == {"leontief", "ghosh", "eeioa"}
IoSwitch(io_approach, t, direct_intensity, inverse) ==
    CASE io_approach = "leontief" -> LeontiefCalc(t, direct_intensity, inverse)
      [] io_approach = "ghosh" -> GhoshCalc(t, direct_intensity, inverse)
      [] io_approach = "eeioa" -> EeioaCalc(t, direct_intensity, inverse)

\* Lines 261-278 for one year: the year's slice of risk_structure.
RiskSlice(io_approach, t, direct_impact_yearly, inverse) ==
    Mat(IoSwitch(io_approach, t, Vec(DirectIntensity(t, direct_impact_yearly)), inverse))
\* np.nansum(risk_structure[:, :, year_i], axis=0)
IndirectYearly(slice) ==
    [idx \in 1..Len(slice) |-> NanSumSeq(Column(slice, idx))]

\* The io_approach values a caller may pass; "other" is no key of io_switch.
IoApproaches == IoSwitchKeys \cup {"other"}

\* A variant of the io_data assignment that keeps the entries of an earlier
\* propagation run (no reset of the dictionary, coefficients and inverse
\* only set when absent).
IoDataKeepExisting(coefficients, inverse, risk_structure, io_approach) ==
    IF "io_data" \in has
    THEN [io_data EXCEPT !.risk_structure = risk_structure,
                         !.io_approach = io_approach]
    ELSE [coefficients |-> coefficients, inverse |-> inverse,
          risk_structure |-> risk_structure, io_approach |-> io_approach]

\* self.io_data = {} followed by io_data.update({...}): a new dictionary
\* holding exactly the four entries of this call.
IoDataUpdate(coefficients, inverse, risk_structure, io_approach) ==
    [coefficients |-> coefficients, inverse |-> inverse,
     risk_structure |-> risk_structure, io_approach |-> io_approach]

\* calc_indirect_impact(io_approach).  risk_structure[i, j, y] of the code is
\* risk_structure[y + 1][i + 1][j + 1] here, so its year dimension is Len.
CalcIndirectImpact(io_approach) ==
    \E coefficients \in {Mat(Coefficients(mriot, io_approach))} :
    \E inv \in {LinalgInv(Mat(MatSub(Identity(Len(mriot.mriot_data)), coefficients)))} :
    /\ last' = [op |-> "indirect", io_approach |-> io_approach] @@ NoArgs
    /\ IF ~inv.ok
       THEN \* np.linalg.inv raises at line 253
            /\ err' = "LinAlgError"
            /\ UNCHANGED <<mriot, results>>
       ELSE IF "direct_impact" \notin has
       THEN \* line 257 reads self.direct_impact
            /\ err' = "AttributeError"
            /\ UNCHANGED <<mriot, results>>
       ELSE IF io_approach \notin IoSwitchKeys
       THEN \* line 257 has assigned the zeros; line 274 raises in the first year
            /\ err' = "KeyError"
            /\ indirect_impact' = Zeros(Len(direct_impact), Len(direct_impact[1]))
            /\ has' = has \cup {"indirect_impact"}
            /\ UNCHANGED <<mriot, years, direct_impact, direct_aai_agg,
                           cntry_dir_imp, indirect_aai_agg, io_data,
                           total_impact, total_aai_agg>>
       ELSE \E risk_structure \in
                 {[y \in 1..Len(years) |->
                     RiskSlice(io_approach, mriot, direct_impact[y], inv.inv)] \o <<>>} :
            \E indirect \in
                 {Mat([y \in 1..Len(years) |-> IndirectYearly(risk_structure[y])])} :
            /\ err' = "none"
            /\ indirect_impact' = indirect
            /\ indirect_aai_agg' = Vec(MeanAxis0(indirect))
            /\ io_data' = IoDataUpdate(coefficients, inv.inv, risk_structure,
                                        io_approach)
            /\ has' = has \cup {"indirect_impact", "indirect_aai_agg", "io_data"}
            /\ UNCHANGED <<mriot, years, direct_impact, direct_aai_agg,
                           cntry_dir_imp, total_impact, total_aai_agg>>

\* --------------------------------------------------- calc_total_impact
\* a + b on two 2-d arrays with the same number of columns: numpy broadcasts
\* a year dimension of 1 against any other, and raises ValueError when the
\* year dimensions differ otherwise.
NpAdd(a, b) ==
    LET la == Len(a)
        lb == Len(b)
        n == IF la >= lb THEN la ELSE lb
    IN  IF la = lb \/ la = 1 \/ lb = 1
        THEN [ok |-> TRUE,
              val |-> Mat([y \in 1..n |-> [r \in 1..Len(a[1]) |->
                         FAdd(a[IF la = 1 THEN 1 ELSE y][r],
                              b[IF lb = 1 THEN 1 ELSE y][r])]])]
        ELSE [ok |-> FALSE, val |-> <<>>]

CalcTotalImpact ==
    /\ last' = [op |-> "total"] @@ NoArgs
    /\ IF ~({"indirect_impact", "direct_impact"} \subseteq has)
       THEN /\ err' = "AttributeError"
            /\ UNCHANGED <<mriot, results>>
       ELSE \E sum \in {NpAdd(indirect_impact, direct_impact)} :
           IF ~sum.ok
           THEN /\ err' = "ValueError"
                /\ UNCHANGED <<mriot, results>>
           ELSE /\ err' = "none"
                /\ total_impact' = sum.val
                /\ total_aai_agg' = Vec(MeanAxis0(sum.val))
                /\ has' = has \cup {"total_impact", "total_aai_agg"}
                /\ UNCHANGED <<mriot, years, direct_impact, direct_aai_agg,
                               cntry_dir_imp, indirect_impact, indirect_aai_agg,
                               io_data>>
\* ----------------------------------------------------------------- inputs
\* All sequences over S of length 1..n.
SeqsUpTo(S, n) == UNION {[1..k -> S] : k \in 1..n}

\* The event dates <<year, month, day>> of the hazards a caller may pass: one
\* event; three events in two years; three events in three years.
Hazards ==
    {<< <<2020, 2, 1>> >>,
     << <<2021, 5, 1>>, <<2020, 2, 1>>, <<2020, 9, 1>> >>,
     << <<2022, 7, 1>>, <<2020, 2, 1>>, <<2021, 5, 1>> >>}
ExpValues == {0, 1}
Exposures == SeqsUpTo([region_id : RegionIds, value : ExpValues], MaxExpRows)
SectorTypes == {"service", "manufacturing", "agriculture", "mining", "forestry"}
\* User-defined subsector positions of a two-sector country block.
SubsecLists == SeqsUpTo({0, 1}, MaxSubsec)

\* A call of calc_sector_direct_impact with any arguments: selected_subsec
\* None, the empty list, or a list of positions.
DirectAny ==
    \E hazard \in Hazards, exposure \in Exposures, imp_fun_set \in ImpFuncSets :
        \/ \E sector_type \in SectorTypes :
              CalcSectorDirectImpact(hazard, exposure, imp_fun_set, sector_type, TRUE, <<>>)
        \/ CalcSectorDirectImpact(hazard, exposure, imp_fun_set, "forestry", FALSE, <<>>)
        \/ \E sel \in SubsecLists :
              CalcSectorDirectImpact(hazard, exposure, imp_fun_set, "service", FALSE, sel)

\* ------------------------------------------------------- specifications
\* One call of calc_sector_direct_impact on a freshly loaded object.
InitDirect == InitWith(Tables)
DirectOnce == last.op = "init" /\ DirectAny
NextDirect == DirectOnce
SpecDirect == InitDirect /\ [][NextDirect]_vars
\* The propagation: one call of calc_sector_direct_impact on a freshly
\* loaded object, then any number of calls of calc_indirect_impact.
PropagationHazards ==
    {<< <<2020, 2, 1>> >>, << <<2021, 5, 1>>, <<2020, 2, 1>> >>}
PropagationExposures ==
    {<< [region_id |-> 756, value |-> 1] >>,
     << [region_id |-> 894, value |-> 1], [region_id |-> 716, value |-> 1] >>,
     << [region_id |-> 716, value |-> 2], [region_id |-> 756, value |-> 1],
        [region_id |-> 716, value |-> 0] >>}
InitIO == InitWith(Tables)
DirectFirst ==
    /\ last.op = "init"
    /\ \E hazard \in PropagationHazards, exposure \in PropagationExposures,
          imp_fun_set \in ImpFuncSets, sel \in {<<0>>, <<1>>, <<0, 1>>} :
          CalcSectorDirectImpact(hazard, exposure, imp_fun_set, "service", FALSE, sel)
IndirectCall == \E io_approach \in IoApproaches : CalcIndirectImpact(io_approach)
NextIO == DirectFirst \/ IndirectCall
SpecIO == InitIO /\ [][NextIO]_vars

\* The workflow: any sequence of calls of the three calc_ methods on one
\* object.
WorkflowExposures ==
    {<< [region_id |-> 894, value |-> 1], [region_id |-> 756, value |-> 3] >>}
DirectCall ==
    \E hazard \in Hazards, exposure \in WorkflowExposures :
        \/ CalcSectorDirectImpact(hazard, exposure, "steep", "agriculture", TRUE, <<>>)
        \/ CalcSectorDirectImpact(hazard, exposure, "steep", "forestry", TRUE, <<>>)
TotalCall == CalcTotalImpact

Init == InitWith({TableSmall, TableSingular})
Next == DirectCall \/ IndirectCall \/ TotalCall
Spec == Init /\ [][Next]_vars
\* ================================================================ claims
\* The positions a call of calc_sector_direct_impact selected.
SelectedOf(l) == SelectSubsec(l.sector_type, l.omitted, l.selected_subsec).val
DirectReturned == last.op = "direct" /\ err = "none"
IndirectReturned == last.op = "indirect" /\ err = "none"
RowSum(t, p) == SumSeq(t.mriot_data[p])
ColSum(t, p) == SumSeq(Column(t.mriot_data, p))
RECURSIVE SumOfCountry(_, _, _, _, _)
\* Sum over the countries recorded under code c of (the country's loss ratio
\* of year y) * prod, from the i-th processed country on.
SumOfCountry(c, y, prod, i, acc) ==
    IF i > Len(last.imp_calls) THEN acc
    ELSE SumOfCountry(c, y, prod, i + 1,
            IF cntry_dir_imp[i] = c
            THEN FAdd(acc, FMul(last.imp_calls[i].imp_year_set[y], prod))
            ELSE acc)

\* C3: after calc_sector_direct_impact returns, for every country code c the
\* call recorded (several exposure countries may share it, 'ROW' above all),
\* every selected position k of c's block and every year y, direct_impact
\* holds the sum over all countries recorded as c of (the country's loss ratio
\* of year y) * (row sum of the flow matrix at that row): contributions add,
\* none is overwritten.
C3_SameCodeContributionsSum ==
    DirectReturned =>
        \A c \in SeqRange(cntry_dir_imp) :
        \A k \in 1..Len(SelectedOf(last)) :
        \A y \in 1..Len(years) :
            LET p == CntryPosStart(mriot, c) + SelectedOf(last)[k] + 1
            IN  direct_impact[y][p] = SumOfCountry(c, y, RowSum(mriot, p), 1, Zero)
\* Two countries were recorded as ROW, each with a non-zero loss in the first
\* year, on a row that sells something.
C3_Witness ==
    /\ DirectReturned
    /\ \E i, j \in 1..Len(cntry_dir_imp) :
          /\ i < j /\ cntry_dir_imp[i] = "ROW" /\ cntry_dir_imp[j] = "ROW"
          /\ FPos(last.imp_calls[i].imp_year_set[1])
          /\ FPos(last.imp_calls[j].imp_year_set[1])
    /\ \E k \in 1..Len(SelectedOf(last)) :
          FPos(direct_impact[1][CntryPosStart(mriot, "ROW") + SelectedOf(last)[k] + 1])

\* A country is unresolved when its number has no alpha-3 mapping or the
\* alpha-3 code is not a country of the MRIOT.
Unresolved(cntry) ==
    CountriesByNumericGet(Str(cntry)) \notin SeqRange(mriot.countries_iso3)
\* C4 (as claimed): every unresolved country that calc_sector_direct_impact
\* processes is recorded as 'ROW' in cntry_dir_imp and raises nothing on the
\* way: a number without alpha-3 mapping falls back to ROW like a code that
\* is not in the MRIOT.
C4_UnresolvedFallsBackToRow ==
    last.op = "direct" =>
        \A i \in 1..Len(last.imp_calls) :
            Unresolved(last.imp_calls[i].cntry) =>
                /\ err # "AttributeError"
                /\ i <= Len(cntry_dir_imp)
                /\ cntry_dir_imp[i] = "ROW"

BuiltInNames == {"service", "manufacturing", "agriculture", "mining"}
UnknownPresetCall(l) ==
    l.op = "direct" /\ l.omitted /\ l.sector_type \notin BuiltInNames
C5_UnknownPresetFailsFast ==
    [][UnknownPresetCall(last') =>
          /\ err' = "KeyError"
          /\ UNCHANGED <<years, direct_impact, direct_aai_agg, cntry_dir_imp, has>>]_vars
\* Such a call was made on an object that holds the three-year results of an
\* earlier call.
C5_Witness ==
    /\ UnknownPresetCall(last) /\ err = "KeyError"
    /\ "direct_aai_agg" \in has /\ Len(years) = 3
    /\ \E r \in 1..Len(direct_aai_agg) : FPos(direct_aai_agg[r])

\* C1 (as claimed): when calc_total_impact has returned, total_impact has a
\* row per year of direct_impact and of indirect_impact, and
\* total_impact[y, r] = direct_impact[y, r] + indirect_impact[y, r].
C1_TotalIsElementwiseSum ==
    (last.op = "total" /\ err = "none") =>
        \A y \in 1..Len(total_impact) :
            /\ y <= Len(direct_impact)
            /\ y <= Len(indirect_impact)
            /\ \A r \in 1..Len(total_impact[y]) :
                  total_impact[y][r] = FAdd(direct_impact[y][r], indirect_impact[y][r])

\* C6 (as claimed): when calc_total_impact was called with direct_impact and
\* indirect_impact of different shapes (they differ in the number of years),
\* it raised the shape mismatch error (numpy's ValueError).
C6_ShapeMismatchRaises ==
    (/\ last.op = "total"
     /\ {"direct_impact", "indirect_impact"} \subseteq has
     /\ Len(direct_impact) # Len(indirect_impact)) => err = "ValueError"

\* C8 (as claimed): whenever years and io_data['risk_structure'] both exist,
\* len(years) is the size of the year dimension of risk_structure.
C8_YearsMatchRiskStructure ==
    {"years", "io_data"} \subseteq has => Len(years) = Len(io_data.risk_structure)

\* C2: in the coefficient matrix calc_indirect_impact built, for 'leontief'
\* and 'eeioa' column j is zero where total_prod[j] <= 0 and flow[:, j] /
\* total_prod[j] elsewhere; for 'ghosh' row i is zero where total_prod[i] <= 0
\* and flow[i, :] / total_prod[i] elsewhere.
NotPositive(a) == a[1] <= 0
C2_CoefficientOrientation ==
    IndirectReturned =>
        LET n == Len(mriot.mriot_data)
            c == io_data.coefficients
            tp == mriot.total_prod
            flow == mriot.mriot_data
        IN  /\ Len(c) = n
            /\ io_data.io_approach \in {"leontief", "eeioa"} =>
                  \A j \in 1..n : \A i \in 1..n :
                      c[i][j] = IF NotPositive(tp[j]) THEN Zero
                                ELSE FDiv(flow[i][j], tp[j])
            /\ io_data.io_approach = "ghosh" =>
                  \A i \in 1..n : \A j \in 1..n :
                      c[i][j] = IF NotPositive(tp[i]) THEN Zero
                                ELSE FDiv(flow[i][j], tp[i])
\* A Leontief run on a table with a row of no production that still sells:
\* its coefficient column is zero, and another column is not.
C2_Witness ==
    /\ IndirectReturned /\ io_data.io_approach = "leontief"
    /\ \E j \in 1..Len(mriot.total_prod) :
          /\ mriot.total_prod[j] = Zero
          /\ \E i \in 1..Len(mriot.total_prod) : FPos(mriot.mriot_data[i][j])
          /\ \A i \in 1..Len(mriot.total_prod) : io_data.coefficients[i][j] = Zero
    /\ \E i, j \in 1..Len(mriot.total_prod) :
          /\ i # j /\ FPos(io_data.coefficients[i][j])
          /\ mriot.total_prod[i] # mriot.total_prod[j]

\* The direct intensity of row i in year y, and the value added and the final
\* demand of row i, from the table and direct_impact.
IntensityOf(y, i) ==
    IF FPos(mriot.total_prod[i]) THEN FDiv(direct_impact[y][i], mriot.total_prod[i])
    ELSE Zero
ValueAddedOf(i) == FSub(mriot.total_prod[i], ColSum(mriot, i))
FinalDemandOf(i) == FSub(mriot.total_prod[i], RowSum(mriot, i))

\* C9: under 'ghosh', risk_structure[i, c, y] = max(direct_intensity[i] *
\* value_added[i], 0) * inverse[i, c] with value_added[i] = total_prod[i] -
\* column_sum(flow[:, i]); so where value_added[i] < 0 and direct_intensity[i]
\* > 0, risk_structure[i, c, y] = 0 for every c.
C9_GhoshClampsValueAdded ==
    (IndirectReturned /\ io_data.io_approach = "ghosh") =>
        \A y \in 1..Len(years) : \A i \in 1..Len(mriot.mriot_data) :
            LET degr == FMaximum(FMul(IntensityOf(y, i), ValueAddedOf(i)), Zero)
            IN  /\ \A c \in 1..Len(mriot.mriot_data) :
                      io_data.risk_structure[y][i][c] = FMul(degr, io_data.inverse[i][c])
                /\ (FNeg(ValueAddedOf(i)) /\ FPos(IntensityOf(y, i))) =>
                      \A c \in 1..Len(mriot.mriot_data) :
                          io_data.risk_structure[y][i][c] = Zero
\* A Ghosh run with a row of negative value added, positive direct intensity
\* and a non-zero entry in its row of the inverse.
C9_Witness ==
    /\ IndirectReturned /\ io_data.io_approach = "ghosh"
    /\ \E y \in 1..Len(years) : \E i \in 1..Len(mriot.mriot_data) :
          /\ FNeg(ValueAddedOf(i)) /\ FPos(IntensityOf(y, i))
          /\ io_data.inverse[i][i] # Zero
          /\ io_data.risk_structure[y][i][i] = Zero

\* C10: under 'leontief', risk_structure[i, r, y] = inverse[r, i] *
\* direct_intensity[i] * (total_prod[i] - row_sum(flow[i, :])) and
\* indirect_impact[y, r] is their sum over i (NaN counted as zero); so a direct
\* impact confined to row 0 gives a non-zero indirect impact in row 1 whenever
\* inverse[1, 0] and the final demand of row 0 are non-zero.
C10_LeontiefRedistributes ==
    (IndirectReturned /\ io_data.io_approach = "leontief") =>
        \A y \in 1..Len(years) :
            LET n == Len(mriot.mriot_data)
                rs == io_data.risk_structure[y]
            IN  /\ \A i \in 1..n : \A r \in 1..n :
                      rs[i][r] = FMul(io_data.inverse[r][i],
                                      FMul(IntensityOf(y, i), FinalDemandOf(i)))
                /\ \A r \in 1..n :
                      indirect_impact[y][r] = NanSumSeq([i \in 1..n |-> rs[i][r]])
                /\ (/\ ~IsNaN(direct_impact[y][1]) /\ direct_impact[y][1] # Zero
                    /\ \A r \in 2..n : direct_impact[y][r] = Zero
                    /\ io_data.inverse[2][1] # Zero
                    /\ FinalDemandOf(1) # Zero) => indirect_impact[y][2] # Zero
\* A Leontief run on a four-row table in a year whose direct impact is
\* confined to row 0, with inverse[1, 0] and the final demand non-zero.
C10_Witness ==
    /\ IndirectReturned /\ io_data.io_approach = "leontief"
    /\ Len(mriot.mriot_data) = 4
    /\ \E y \in 1..Len(years) :
          /\ FPos(direct_impact[y][1])
          /\ \A r \in 2..4 : direct_impact[y][r] = Zero
          /\ io_data.inverse[2][1] # Zero /\ io_data.inverse[2][1] # io_data.inverse[1][2]
          /\ FinalDemandOf(1) # Zero
          /\ indirect_impact[y][2] # Zero

\* What a first calc_indirect_impact(io_approach) on an object holding the
\* present MRIOT, years and direct_impact, and no propagation result, leaves.
RecomputedInverse(io_approach) ==
    LinalgInv(Mat(MatSub(Identity(Len(mriot.mriot_data)),
                         Mat(Coefficients(mriot, io_approach))))).inv
RecomputedRiskStructure(io_approach) ==
    CHOOSE r \in {[y \in 1..Len(years) |->
                     RiskSlice(io_approach, mriot, direct_impact[y], inverse)] \o <<>> :
                  inverse \in {RecomputedInverse(io_approach)}} : TRUE
RecomputedIndirect(io_approach) ==
    CHOOSE r \in {Mat([y \in 1..Len(years) |-> IndirectYearly(risk_structure[y])]) :
                  risk_structure \in {RecomputedRiskStructure(io_approach)}} : TRUE

\* C11: calc_indirect_impact recomputes its whole result on every call.  After
\* a call with approach A has returned, indirect_impact, indirect_aai_agg and
\* the four entries of io_data are what a first call with A on the present
\* MRIOT and direct_impact computes, whatever calls of calc_indirect_impact
\* (with any approach, returning or raising) preceded it.
C11_IndirectWhollyRecomputed ==
    IndirectReturned =>
        /\ io_data.io_approach = last.io_approach
        /\ io_data.coefficients = Mat(Coefficients(mriot, last.io_approach))
        /\ io_data.inverse = RecomputedInverse(last.io_approach)
        /\ io_data.risk_structure = RecomputedRiskStructure(last.io_approach)
        /\ indirect_impact = RecomputedIndirect(last.io_approach)
        /\ indirect_aai_agg = Vec(MeanAxis0(indirect_impact))
        /\ DOMAIN io_data = {"coefficients", "inverse", "risk_structure", "io_approach"}

\* A Ghosh call has returned on an object whose total_impact was computed from
\* the result of an earlier Leontief call on the same direct_impact, and that
\* earlier result differs from the present one.
C11_Witness ==
    /\ IndirectReturned /\ last.io_approach = "ghosh"
    /\ "total_impact" \in has
    /\ Len(total_impact) = Len(direct_impact)
    /\ total_impact = NpAdd(direct_impact, RecomputedIndirect("leontief")).val
    /\ total_impact # NpAdd(direct_impact, indirect_impact).val
    /\ io_data.coefficients # Mat(Coefficients(mriot, "leontief"))
====
